---- MODULE Spec2Model ----
(***************************************************************************)
(* Scout: the query compiler (parse_rules), the parallel scan workers      *)
(* (search) and the result aggregator (print_results) of src/src/scout.cpp.*)
(*                                                                         *)
(* The move array is a sequence of Move values (db[i + 1] is the element   *)
(* at C++ index i).  The rules engine (Position) is not part of scout.cpp; *)
(* it is represented by a board of a few squares of the first rank on      *)
(* which two rooks slide, with both kings standing still.                  *)
(***************************************************************************)
EXTENDS Integers, Sequences, FiniteSets, TLC

VARIABLES
    db,        \* d.baseAddress[0 .. d.dbSize - 1], the mapped move array
    nThreads,  \* Threads.size()
    j,         \* the JSON query given to parse_rules
    data,      \* Scout::Data filled by parse_rules: rules, pattern, matKey, result
    pcMain,    \* caller: "parse" -> "scan" -> "report" -> "done"
    thr,       \* per thread: the locals of search() and its position in it
    counters,  \* per thread: th->scout.movesCnt / th->scout.matchCnt
    writers,   \* per thread: the threads that wrote its counters, in order
    mapped,    \* whether the database file is still mapped at d.baseAddress
    report     \* what print_results printed (cnt, matches), or NoReport

vars == <<db, nThreads, j, data, pcMain, thr, counters, writers, mapped, report>>

----------------------------------------------------------------------------
(* Bounds of the model *)

\* largest database (in moves, markers and sentinels included) of Spec
MaxDbSize == 7
\* largest number of threads of Spec
MaxThreads == 4
\* largest database of the step-by-step specification SpecSteps
StepDbSize == 7
\* largest number of threads of SpecSteps
StepThreads == 2

----------------------------------------------------------------------------
(* Types of the rules engine (types.h) *)

MOVE_NONE == 0

WHITE == 0
BLACK == 1

ROOK == 4
KING == 6
PieceTypes == 1..6          \* PAWN .. KING

NO_PIECE == 0
W_ROOK == 4
W_KING == 6
B_ROOK == 12
B_KING == 14

SQ_A1 == 0
SQ_B1 == 1
SQ_C1 == 2
SQ_D1 == 3
SQ_E1 == 4
SQ_H8 == 63
Squares == {SQ_A1, SQ_B1, SQ_C1, SQ_D1, SQ_E1, SQ_H8}
RookSquares == {SQ_B1, SQ_C1, SQ_D1, SQ_E1}

color_of(pc) == pc \div 8
type_of(pc) == pc % 8

make_move(from, to) == from * 64 + to
from_sq(m) == (m \div 64) % 64
to_sq(m) == m % 64

\* enum GameResult, in the order parse_rules names its values
WhiteWin == 0
BlackWin == 1
Draw == 2
Unknown == 3
Invalid == 4
GameResults == {WhiteWin, BlackWin, Draw, Unknown, Invalid}

\* The first move of a game stores its result in the destination square.
ResultMarker(r) == make_move(SQ_B1, r)

----------------------------------------------------------------------------
(* Position *)

EmptyBoard == [s \in Squares |-> NO_PIECE]

Place(board, placed) ==
    [s \in Squares |-> IF s \in DOMAIN placed THEN placed[s] ELSE board[s]]

\* Position::pieces()
pieces(pos) == {s \in Squares : pos.board[s] # NO_PIECE}
\* Position::pieces(Color)
pieces_c(pos, c) ==
    {s \in Squares : pos.board[s] # NO_PIECE /\ color_of(pos.board[s]) = c}
\* Position::pieces(PieceType)
pieces_pt(pos, pt) ==
    {s \in Squares : pos.board[s] # NO_PIECE /\ type_of(pos.board[s]) = pt}

\* Position::material_key(): determined by the number of pieces of each kind
material_key(pos) ==
    [pc \in {W_ROOK, W_KING, B_ROOK, B_KING} |->
        Cardinality({s \in Squares : pos.board[s] = pc})]

side_to_move(pos) == pos.stm

\* Position::set(fen, ...) for the piece placements used here
FenBoards ==
    [f \in {"7k/8/8/8/8/8/8/KR1r4", "8/8/8/8/8/8/8/2R5", "8/8/8/8/8/8/8/2r5",
            "7k/8/8/8/8/8/8/K1Rr4"} |->
        CASE f = "7k/8/8/8/8/8/8/KR1r4" ->
               Place(EmptyBoard, (SQ_A1 :> W_KING) @@ (SQ_B1 :> W_ROOK)
                                 @@ (SQ_D1 :> B_ROOK) @@ (SQ_H8 :> B_KING))
          [] f = "8/8/8/8/8/8/8/2R5" -> Place(EmptyBoard, (SQ_C1 :> W_ROOK))
          [] f = "8/8/8/8/8/8/8/2r5" -> Place(EmptyBoard, (SQ_C1 :> B_ROOK))
          [] f = "7k/8/8/8/8/8/8/K1Rr4" ->
               Place(EmptyBoard, (SQ_A1 :> W_KING) @@ (SQ_C1 :> W_ROOK)
                                 @@ (SQ_D1 :> B_ROOK) @@ (SQ_H8 :> B_KING))]

set_fen(f) == [board |-> FenBoards[f], stm |-> WHITE]

\* Position::set(code, WHITE, ...): the strong side (first) is White
MaterialBoards ==
    [c \in {"KRKR", "KRK", "KKR"} |->
        CASE c = "KRKR" ->
               Place(EmptyBoard, (SQ_A1 :> W_KING) @@ (SQ_B1 :> W_ROOK)
                                 @@ (SQ_D1 :> B_ROOK) @@ (SQ_H8 :> B_KING))
          [] c = "KRK" ->
               Place(EmptyBoard, (SQ_A1 :> W_KING) @@ (SQ_B1 :> W_ROOK)
                                 @@ (SQ_H8 :> B_KING))
          [] c = "KKR" ->
               Place(EmptyBoard, (SQ_A1 :> W_KING) @@ (SQ_D1 :> B_ROOK)
                                 @@ (SQ_H8 :> B_KING))]

set_material(c) == [board |-> MaterialBoards[c], stm |-> WHITE]

\* th->rootPos: the position every game is replayed from
rootPos == set_fen("7k/8/8/8/8/8/8/KR1r4")

Between(a, b) == {s \in RookSquares : (a < s /\ s < b) \/ (b < s /\ s < a)}

\* pos.pseudo_legal(m) && pos.legal(m), for the rook moves of this board
legal(pos, m) ==
    LET from == from_sq(m)
        to == to_sq(m)
    IN  /\ m = make_move(from, to)
        /\ from \in RookSquares /\ to \in RookSquares /\ from # to
        /\ pos.board[from] # NO_PIECE
        /\ type_of(pos.board[from]) = ROOK
        /\ color_of(pos.board[from]) = pos.stm
        /\ \A s \in Between(from, to) : pos.board[s] = NO_PIECE
        /\ \/ pos.board[to] = NO_PIECE
           \/ color_of(pos.board[to]) # pos.stm

\* Position::do_move
do_move(pos, m) ==
    [board |-> [s \in Squares |->
                   IF s = from_sq(m) THEN NO_PIECE
                   ELSE IF s = to_sq(m) THEN pos.board[from_sq(m)]
                   ELSE pos.board[s]],
     stm |-> 1 - pos.stm]

----------------------------------------------------------------------------
(* Scout::Data and parse_rules *)

RuleNone == "RuleNone"
RulePattern == "RulePattern"
RuleMaterial == "RuleMaterial"
RuleWhite == "RuleWhite"
RuleBlack == "RuleBlack"
RuleResult == "RuleResult"
RuleEnd == "RuleEnd"

\* The value of j["key"] for a key the query does not hold: empty() is true
\* of it, and false of every string.
JsonNull == "<null>"
json_empty(v) == v = JsonNull

HasMask(p) == p[2] # {}

\* lines 196-202: the pattern to be searched
PatternOf(pos) ==
    [all |-> pieces(pos),
     white |-> pieces_c(pos, WHITE),
     pieces |-> SelectSeq([pt \in PieceTypes |-> <<pt, pieces_pt(pos, pt)>>],
                          HasMask)]

\* lines 222-225
ResultOf(v) ==
    IF v = "1-0" THEN WhiteWin
    ELSE IF v = "0-1" THEN BlackWin
    ELSE IF v = "1/2-1/2" THEN Draw
    ELSE IF v = "*" THEN Unknown
    ELSE Invalid

\* lines 190-205
ParseFen(d, q) ==
    IF ~json_empty(q.fen)
    THEN [d EXCEPT !.pattern = [all |-> PatternOf(set_fen(q.fen)).all,
                                white |-> PatternOf(set_fen(q.fen)).white,
                                pieces |-> d.pattern.pieces
                                           \o PatternOf(set_fen(q.fen)).pieces],
                   !.rules = Append(d.rules, RulePattern)]
    ELSE d

\* lines 207-212
ParseMaterial(d, q) ==
    IF ~json_empty(q.material)
    THEN [d EXCEPT !.matKey = material_key(set_material(q.material)),
                   !.rules = Append(d.rules, RuleMaterial)]
    ELSE d

\* a faulty variant of StmRule: an stm value other than "WHITE" and "BLACK" is dropped
StmRuleStrict(v) ==
    IF v = "WHITE" THEN <<RuleWhite>>
    ELSE IF v = "BLACK" THEN <<RuleBlack>>
    ELSE <<>>

\* line 216
StmRule(v) == IF v = "WHITE" THEN <<RuleWhite>> ELSE <<RuleBlack>>

\* lines 214-218
ParseStm(d, q) ==
    IF ~json_empty(q.stm)
    THEN [d EXCEPT !.rules = d.rules \o StmRule(q.stm)]
    ELSE d

\* a faulty variant of ParseResult: an unrecognized result is stored and emitted
ParseResultAny(d, q) ==
    IF ~json_empty(q.result)
    THEN [d EXCEPT !.result = ResultOf(q.result),
                   !.rules = Append(d.rules, RuleResult)]
    ELSE d

\* lines 220-232
ParseResult(d, q) ==
    IF ~json_empty(q.result) /\ ResultOf(q.result) # Invalid
    THEN [d EXCEPT !.result = ResultOf(q.result),
                   !.rules = Append(d.rules, RuleResult)]
    ELSE d

\* a faulty variant of Terminate: the terminator is always RuleEnd
TerminateEnd(d) == [d EXCEPT !.rules = Append(d.rules, RuleEnd)]

\* line 234
Terminate(d) ==
    [d EXCEPT !.rules = Append(d.rules,
                               IF Len(d.rules) # 0 THEN RuleEnd ELSE RuleNone)]

\* a faulty variant of parse_rules: the result is compiled before the side to move
parse_rules_reordered(d, q) ==
    Terminate(ParseStm(ParseResult(ParseMaterial(ParseFen(d, q), q), q), q))

\* lines 177-235
parse_rules(d, q) ==
    Terminate(ParseResult(ParseStm(ParseMaterial(ParseFen(d, q), q), q), q))

\* A Scout::Data before parse_rules: no rule, no pattern piece; the target
\* result holds whatever the caller left there.
FreshData(r) ==
    [rules |-> <<>>,
     pattern |-> [all |-> {}, white |-> {}, pieces |-> <<>>],
     matKey |-> material_key([board |-> EmptyBoard, stm |-> WHITE]),
     result |-> r]

----------------------------------------------------------------------------
(* search(): one worker *)

\* What a worker did, in order: "read" (an element of the move array was
\* dereferenced), "game" (a game was started at its result marker), "move"
\* (do_move was applied), "rule" (an opcode was dispatched; pass tells whether
\* control went on to the next opcode or to the match) and "match"
\* (matchCnt++).  at is the index into the move array, game the index of the
\* result marker of the game being replayed.
Ev(op, at, game, rule, pass) ==
    [op |-> op, at |-> at, game |-> game, rule |-> rule, pass |-> pass]

NoRule == "-"

\* a faulty variant of PatternPasses: the position must equal the pattern
PatternPassesExact(pos) ==
    /\ pieces(pos) = data.pattern.all
    /\ pieces_c(pos, WHITE) = data.pattern.white
    /\ \A k \in 1..Len(data.pattern.pieces) :
          pieces_pt(pos, data.pattern.pieces[k][1]) = data.pattern.pieces[k][2]

\* lines 96-104
PatternPasses(pos) ==
    /\ ~(\/ (pieces(pos) \cap data.pattern.all) # data.pattern.all
         \/ (pieces_c(pos, WHITE) \cap data.pattern.white) # data.pattern.white)
    /\ \A k \in 1..Len(data.pattern.pieces) :
          ~((pieces_pt(pos, data.pattern.pieces[k][1])
                \cap data.pattern.pieces[k][2]) # data.pattern.pieces[k][2])

\* a faulty variant of ResultPasses: the result opcode lets every game through
ResultPassesAlways(result) == TRUE

\* line 122
ResultPasses(result) == ~(result # data.result)

\* lines 106-119: the opcodes that fail one move only
MovePasses(r, pos) ==
    CASE r = RulePattern -> PatternPasses(pos)
      [] r = RuleMaterial -> ~(material_key(pos) # data.matKey)
      [] r = RuleWhite -> ~(side_to_move(pos) # WHITE)
      [] r = RuleBlack -> ~(side_to_move(pos) # BLACK)

\* a faulty variant of RunRules: a result mismatch fails this move only
RECURSIVE RunRulesResultFailsMove(_, _, _)
RunRulesResultFailsMove(k, pos, result) ==
    LET r == data.rules[k]
        rest == RunRulesResultFailsMove(k + 1, pos, result)
        go(pass) == IF pass
                    THEN [out |-> rest.out, ops |-> <<<<r, TRUE>>>> \o rest.ops]
                    ELSE [out |-> "Failed", ops |-> <<<<r, FALSE>>>>]
    IN  CASE r = RuleNone -> [out |-> "Failed", ops |-> <<<<r, FALSE>>>>]
          [] r = RuleEnd -> [out |-> "Match", ops |-> <<<<r, TRUE>>>>]
          [] r = RuleResult -> go(ResultPasses(result))
          [] OTHER -> go(MovePasses(r, pos))

\* lines 85-135: the loop across the rules from rules[k] on, for the position
\* reached and the result of the game.  out is where control leaves the loop
\* ("Failed", "SkipToNext" or "Match"), ops the opcodes dispatched.
RECURSIVE RunRules(_, _, _)
RunRules(k, pos, result) ==
    LET r == data.rules[k]
        rest == RunRules(k + 1, pos, result)
        go(pass) == IF pass
                    THEN [out |-> rest.out, ops |-> <<<<r, TRUE>>>> \o rest.ops]
                    ELSE [out |-> "Failed", ops |-> <<<<r, FALSE>>>>]
    IN  CASE r = RuleNone -> [out |-> "Failed", ops |-> <<<<r, FALSE>>>>]
          [] r = RuleEnd -> [out |-> "Match", ops |-> <<<<r, TRUE>>>>]
          [] r = RuleResult ->
               IF ResultPasses(result) THEN go(TRUE)
               ELSE [out |-> "SkipToNext", ops |-> <<<<r, FALSE>>>>]
          [] OTHER -> go(MovePasses(r, pos))

RuleEvents(ops, at, game) ==
    [k \in 1..Len(ops) |-> Ev("rule", at, game, ops[k][1], ops[k][2])]

\* lines 51-55: the nominal slice of thread idx
SliceStart(idx) == idx * (Len(db) \div nThreads)
SliceEnd(idx) ==
    IF idx = nThreads - 1 THEN Len(db)
    ELSE SliceStart(idx) + (Len(db) \div nThreads)

Idle ==
    [pc |-> "idle", data |-> 0, end |-> 0, cnt |-> 0, matchCnt |-> 0,
     result |-> Invalid, pos |-> rootPos, game |-> 0, trace |-> <<>>]

\* lines 47-62
Enter(idx) ==
    [Idle EXCEPT !.pc = "seek", !.data = SliceStart(idx), !.end = SliceEnd(idx)]

\* line 65: one turn of the loop that moves to the beginning of the next game
SeekStep(w, v) ==
    [w EXCEPT !.data = w.data + 1,
              !.trace = Append(w.trace, Ev("read", w.data, w.game, NoRule, TRUE)),
              !.pc = IF v # MOVE_NONE THEN "seek" ELSE "outer"]

\* a faulty variant of StartsGame: every worker goes on to the end of the database
StartsGameAnywhere(w) == w.data < Len(db)

\* a faulty variant of StartsGame: a worker stops at the end of its slice exactly
StartsGameInclusive(w) == w.data <= w.end

\* line 68
StartsGame(w) == w.data < w.end

\* a faulty variant of OuterStep: the rules are run on the root position too
OuterStepCreditsRoot(w, v) ==
    IF StartsGame(w)
    THEN LET started == [w EXCEPT !.result = to_sq(v),
                                  !.pos = rootPos,
                                  !.game = w.data,
                                  !.trace = w.trace
                                            \o <<Ev("read", w.data, w.data, NoRule, TRUE),
                                                 Ev("game", w.data, w.data, NoRule, TRUE)>>,
                                  !.pc = "inner"]
         IN  IF RunRules(1, rootPos, to_sq(v)).out = "Match"
             THEN [started EXCEPT !.trace =
                                      Append(started.trace,
                                             Ev("match", w.data, w.data, NoRule, TRUE)),
                                  !.matchCnt = w.matchCnt + 1,
                                  !.pc = "skip"]
             ELSE started
    ELSE [w EXCEPT !.pc = "commit"]

\* lines 68-75: the test of the main loop and the start of a game
OuterStep(w, v) ==
    IF StartsGame(w)
    THEN [w EXCEPT !.result = to_sq(v),
                   !.pos = rootPos,
                   !.game = w.data,
                   !.trace = w.trace
                             \o <<Ev("read", w.data, w.data, NoRule, TRUE),
                                  Ev("game", w.data, w.data, NoRule, TRUE)>>,
                   !.pc = "inner"]
    ELSE [w EXCEPT !.pc = "commit"]

\* a faulty variant of AfterMatch: a match does not end the replay of the game
AfterMatchGoOn(w) == [w EXCEPT !.matchCnt = w.matchCnt + 1, !.pc = "inner"]

\* lines 126-133: RuleEnd
AfterMatch(w) == [w EXCEPT !.matchCnt = w.matchCnt + 1, !.pc = "skip"]

\* a faulty variant of InnerStep: the replay of a game stops at the end of the slice
InnerStepBounded(w, v) ==
    LET at == w.data + 1
        rd == Ev("read", at, w.game, NoRule, TRUE)
        pos == do_move(w.pos, v)
        rr == RunRules(1, pos, w.result)
        moved == [w EXCEPT !.data = at,
                           !.pos = pos,
                           !.cnt = w.cnt + 1,
                           !.trace = w.trace
                                     \o <<rd, Ev("move", at, w.game, NoRule, TRUE)>>
                                     \o RuleEvents(rr.ops, at, w.game)]
    IN  IF v = MOVE_NONE \/ at >= w.end
        THEN [w EXCEPT !.data = at, !.trace = Append(w.trace, rd),
                       !.pc = "advance"]
        ELSE CASE rr.out = "Failed" -> [moved EXCEPT !.pc = "inner"]
               [] rr.out = "SkipToNext" -> [moved EXCEPT !.pc = "skip"]
               [] rr.out = "Match" ->
                    AfterMatch([moved EXCEPT !.trace =
                        Append(moved.trace, Ev("match", at, w.game, NoRule, TRUE))])

\* a faulty variant of InnerStep: an opcode that fails abandons the game
InnerStepFailSkips(w, v) ==
    LET at == w.data + 1
        rd == Ev("read", at, w.game, NoRule, TRUE)
        pos == do_move(w.pos, v)
        rr == RunRules(1, pos, w.result)
        moved == [w EXCEPT !.data = at,
                           !.pos = pos,
                           !.cnt = w.cnt + 1,
                           !.trace = w.trace
                                     \o <<rd, Ev("move", at, w.game, NoRule, TRUE)>>
                                     \o RuleEvents(rr.ops, at, w.game)]
    IN  IF v = MOVE_NONE
        THEN [w EXCEPT !.data = at, !.trace = Append(w.trace, rd),
                       !.pc = "advance"]
        ELSE CASE rr.out = "Failed" -> [moved EXCEPT !.pc = "skip"]
               [] rr.out = "SkipToNext" -> [moved EXCEPT !.pc = "skip"]
               [] rr.out = "Match" ->
                    AfterMatch([moved EXCEPT !.trace =
                        Append(moved.trace, Ev("match", at, w.game, NoRule, TRUE))])

\* lines 77-137: the next move of the game, or its sentinel
InnerStep(w, v) ==
    LET at == w.data + 1
        rd == Ev("read", at, w.game, NoRule, TRUE)
        pos == do_move(w.pos, v)
        rr == RunRules(1, pos, w.result)
        moved == [w EXCEPT !.data = at,
                           !.pos = pos,
                           !.cnt = w.cnt + 1,
                           !.trace = w.trace
                                     \o <<rd, Ev("move", at, w.game, NoRule, TRUE)>>
                                     \o RuleEvents(rr.ops, at, w.game)]
    IN  IF v = MOVE_NONE
        THEN [w EXCEPT !.data = at, !.trace = Append(w.trace, rd),
                       !.pc = "advance"]
        ELSE CASE rr.out = "Failed" -> [moved EXCEPT !.pc = "inner"]
               [] rr.out = "SkipToNext" -> [moved EXCEPT !.pc = "skip"]
               [] rr.out = "Match" ->
                    AfterMatch([moved EXCEPT !.trace =
                        Append(moved.trace, Ev("match", at, w.game, NoRule, TRUE))])

\* a faulty variant of SkipStep: the moves skipped are not counted
SkipStepUncounted(w, v) ==
    LET at == w.data + 1
        rd == Ev("read", at, w.game, NoRule, TRUE)
    IN  IF v # MOVE_NONE
        THEN [w EXCEPT !.data = at, !.trace = Append(w.trace, rd)]
        ELSE [w EXCEPT !.trace = Append(w.trace, rd), !.pc = "inner"]

\* lines 129-133: one turn of the loop that skips to the next game
SkipStep(w, v) ==
    LET at == w.data + 1
        rd == Ev("read", at, w.game, NoRule, TRUE)
    IN  IF v # MOVE_NONE
        THEN [w EXCEPT !.data = at, !.cnt = w.cnt + 1,
                       !.trace = Append(w.trace, rd)]
        ELSE [w EXCEPT !.trace = Append(w.trace, rd), !.pc = "inner"]

\* line 142: one turn of the loop that moves to the next game
AdvanceStep(w, v) ==
    LET at == w.data + 1
    IN  [w EXCEPT !.data = at,
                  !.trace = Append(w.trace, Ev("read", at, w.game, NoRule, TRUE)),
                  !.pc = IF v = MOVE_NONE /\ at < w.end THEN "advance"
                         ELSE "outer"]

\* The index of the move array the next step of w dereferences
ReadAt(w) == IF w.pc \in {"seek", "outer"} THEN w.data ELSE w.data + 1

Reads(w) ==
    \/ w.pc \in {"seek", "inner", "skip", "advance"}
    \/ w.pc = "outer" /\ StartsGame(w)

\* What a read beyond the mapped array may yield when it yields a value
OobValues == {MOVE_NONE, make_move(SQ_B1, SQ_C1)}

\* The outcomes of dereferencing baseAddress + i: the element, or, beyond
\* the array, any value or a fault of the process
Deref(i) ==
    IF i < Len(db)
    THEN {[ok |-> TRUE, v |-> db[i + 1]]}
    ELSE {[ok |-> TRUE, v |-> v] : v \in OobValues}
         \cup {[ok |-> FALSE, v |-> MOVE_NONE]}

Outcomes(w) == IF Reads(w) THEN Deref(ReadAt(w)) ELSE {[ok |-> TRUE, v |-> MOVE_NONE]}

\* One step of a worker, given the outcome of the read it makes
Step(w, rd) ==
    IF ~rd.ok
    THEN [w EXCEPT !.pc = "fault",
                   !.trace = Append(w.trace,
                                    Ev("read", ReadAt(w), w.game, NoRule, FALSE))]
    ELSE CASE w.pc = "seek" -> SeekStep(w, rd.v)
           [] w.pc = "outer" -> OuterStep(w, rd.v)
           [] w.pc = "inner" -> InnerStep(w, rd.v)
           [] w.pc = "skip" -> SkipStep(w, rd.v)
           [] w.pc = "advance" -> AdvanceStep(w, rd.v)
           [] w.pc = "commit" -> [w EXCEPT !.pc = "done"]

Ended(w) == w.pc \in {"done", "fault"}

\* search() from w to its end: the locals it may end with
RECURSIVE RunSet(_)
RunSet(w) ==
    IF Ended(w) THEN {w}
    ELSE UNION {RunSet(Step(w, rd)) : rd \in Outcomes(w)}

----------------------------------------------------------------------------
(* The inputs: databases and queries *)

RookMoves == {make_move(f, t) : f \in RookSquares, t \in RookSquares}

\* The sequences of at most n legal moves from pos
RECURSIVE MoveSeqs(_, _)
MoveSeqs(pos, n) ==
    IF n <= 0 THEN {<<>>}
    ELSE {<<>>} \cup
         UNION {{<<m>> \o s : s \in MoveSeqs(do_move(pos, m), n - 1)} :
                m \in {x \in RookMoves : legal(pos, x)}}

\* The results the games of the databases end with
DbResults == {WhiteWin, BlackWin}

\* GameRecords of length at most n: [resultMarker, moves..., sentinel]
Games(n) ==
    {<<ResultMarker(r)>> \o s \o <<MOVE_NONE>> :
        r \in DbResults, s \in MoveSeqs(rootPos, n - 2)}

\* Concatenations of GameRecords of total length at most n
RECURSIVE Concats(_)
Concats(n) ==
    IF n < 2 THEN {<<>>}
    ELSE {<<>>} \cup UNION {{g \o d : d \in Concats(n - Len(g))} : g \in Games(n)}

\* Well-formed databases of at least one game
Databases(n) == Concats(n) \ {<<>>}

Query(fen, material, stm, result) ==
    [fen |-> fen, material |-> material, stm |-> stm, result |-> result]

FenValues == {JsonNull, "8/8/8/8/8/8/8/2R5", "8/8/8/8/8/8/8/2r5",
              "7k/8/8/8/8/8/8/K1Rr4"}
MaterialValues == {JsonNull, "KRK", "KKR"}
StmValues == {JsonNull, "WHITE", "BLACK", "white"}
ResultValues == {JsonNull, "1-0", "0-1", "1/2-1/2", "*", "draw"}

\* The queries parse_rules is checked on
AllQueries ==
    {Query(f, m, s, r) :
        f \in FenValues, m \in MaterialValues, s \in StmValues, r \in ResultValues}

\* The queries the scans are run with
ScanQueries ==
    {Query(JsonNull, JsonNull, JsonNull, JsonNull),
     Query(JsonNull, JsonNull, JsonNull, "draw"),
     Query("8/8/8/8/8/8/8/2R5", JsonNull, JsonNull, JsonNull),
     Query("8/8/8/8/8/8/8/2r5", JsonNull, JsonNull, JsonNull),
     Query("7k/8/8/8/8/8/8/K1Rr4", JsonNull, JsonNull, "1-0"),
     Query(JsonNull, "KRK", JsonNull, JsonNull),
     Query(JsonNull, "KKR", JsonNull, "0-1"),
     Query(JsonNull, JsonNull, "WHITE", JsonNull),
     Query(JsonNull, JsonNull, "BLACK", "1-0"),
     Query(JsonNull, JsonNull, JsonNull, "0-1"),
     Query("8/8/8/8/8/8/8/2R5", "KRKR", "BLACK", "1-0"),
     Query("8/8/8/8/8/8/8/2R5", JsonNull, "WHITE", JsonNull)}

\* The queries of the step-by-step scans
StepQueries ==
    {Query(JsonNull, JsonNull, JsonNull, JsonNull),
     Query("8/8/8/8/8/8/8/2R5", JsonNull, JsonNull, JsonNull),
     Query(JsonNull, JsonNull, "BLACK", "1-0"),
     Query(JsonNull, "KKR", JsonNull, "0-1")}

----------------------------------------------------------------------------
(* The program: parse_rules, the threads running search, print_results *)

Threads == 0..(nThreads - 1)

NoReport == [cnt |-> -1, matches |-> -1]

InitWith(dbs, maxThreads, queries, results) ==
    /\ db \in dbs
    /\ nThreads \in 1..maxThreads
    /\ j \in queries
    /\ \E r \in results : data = FreshData(r)
    /\ pcMain = "parse"
    /\ thr = [th \in Threads |-> Idle]
    /\ counters = [th \in Threads |-> [movesCnt |-> 0, matchCnt |-> 0]]
    /\ writers = [th \in Threads |-> <<>>]
    /\ mapped = TRUE
    /\ report = NoReport

NoFault == \A th \in Threads : thr[th].pc # "fault"

\* the caller compiles the query once, before any worker starts
ParseRules ==
    /\ pcMain = "parse"
    /\ data' = parse_rules(data, j)
    /\ pcMain' = "scan"
    /\ UNCHANGED <<db, nThreads, j, thr, counters, writers, mapped, report>>

\* a faulty variant of CounterOwner: every worker writes the main thread's counters
CounterOwnerMain(th) == 0

\* line 49: d is th->scout, the Data of the thread itself
CounterOwner(th) == th

\* lines 145-146, when worker th ends with the locals w
Commit(th, w) ==
    IF w.pc = "done"
    THEN /\ counters' = [counters EXCEPT ![CounterOwner(th)] =
                            [movesCnt |-> w.cnt, matchCnt |-> w.matchCnt]]
         /\ writers' = [writers EXCEPT ![CounterOwner(th)] = Append(@, th)]
    ELSE UNCHANGED <<counters, writers>>

\* search(th), from its first line to its last
Search(th) ==
    /\ pcMain = "scan"
    /\ NoFault
    /\ thr[th].pc = "idle"
    /\ \E w \in RunSet(Enter(th)) :
          /\ thr' = [thr EXCEPT ![th] = w]
          /\ Commit(th, w)
    /\ UNCHANGED <<db, nThreads, j, data, pcMain, mapped, report>>

\* search(th) up to the main loop's first read
Start(th) ==
    /\ pcMain = "scan"
    /\ NoFault
    /\ thr[th].pc = "idle"
    /\ thr' = [thr EXCEPT ![th] = Enter(th)]
    /\ UNCHANGED <<db, nThreads, j, data, pcMain, counters, writers, mapped, report>>

\* one step of search(th)
Run(th) ==
    /\ pcMain = "scan"
    /\ NoFault
    /\ thr[th].pc \notin {"idle", "done", "fault"}
    /\ \E rd \in Outcomes(thr[th]) :
          /\ thr' = [thr EXCEPT ![th] = Step(thr[th], rd)]
          /\ Commit(th, thr'[th])
    /\ UNCHANGED <<db, nThreads, j, data, pcMain, mapped, report>>

RECURSIVE SumTo(_, _)
SumTo(f, n) == IF n < 0 THEN 0 ELSE f[n] + SumTo(f, n - 1)

\* lines 153-171, after the threads are joined
PrintResults ==
    /\ pcMain = "scan"
    /\ \A th \in Threads : thr[th].pc = "done"
    /\ mapped' = FALSE
    /\ report' = [cnt |-> SumTo([th \in Threads |-> counters[th].movesCnt],
                                nThreads - 1),
                  matches |-> SumTo([th \in Threads |-> counters[th].matchCnt],
                                    nThreads - 1)]
    /\ pcMain' = "done"
    /\ UNCHANGED <<db, nThreads, j, data, thr, counters, writers>>

Init == InitWith(Databases(MaxDbSize), MaxThreads, ScanQueries, {Invalid})

Next ==
    \/ ParseRules
    \/ \E th \in Threads : Search(th)
    \/ PrintResults

Spec == Init /\ [][Next]_vars

InitSteps == InitWith(Databases(StepDbSize), StepThreads, StepQueries, {Invalid})

NextSteps ==
    \/ ParseRules
    \/ \E th \in Threads : Start(th)
    \/ \E th \in Threads : Run(th)
    \/ PrintResults

SpecSteps == InitSteps /\ [][NextSteps]_vars

InitParse ==
    InitWith({<<ResultMarker(WhiteWin), MOVE_NONE>>}, 1, AllQueries, GameResults)

NextParse == ParseRules

SpecParse == InitParse /\ [][NextParse]_vars

----------------------------------------------------------------------------
(* What the claims speak of *)

AllDone == \A th \in Threads : thr[th].pc = "done"

\* The indices of the result markers of the GameRecords of db
GameStarts == {0} \cup {i \in 1..(Len(db) - 1) : db[i] = MOVE_NONE}

\* The indices of the elements that are neither sentinels nor result markers
PlayedMoves == {i \in 0..(Len(db) - 1) : db[i + 1] # MOVE_NONE /\ i \notin GameStarts}

\* The events op of thread th, as positions in its trace
EventsOf(th, op) == {k \in 1..Len(thr[th].trace) : thr[th].trace[k].op = op}

\* The replays of the game whose result marker is at g: (thread, event)
ReplaysOf(g) ==
    {tk \in UNION {{<<th, k>> : k \in EventsOf(th, "game")} : th \in Threads} :
        thr[tk[1]].trace[tk[2]].at = g}

\* The matches thread th credited to the game at g
MatchesOf(th, g) == {k \in EventsOf(th, "match") : thr[th].trace[k].game = g}

\* The position of the game at g after its move at index at
RECURSIVE PosAt(_, _)
PosAt(g, at) == IF at <= g THEN rootPos ELSE do_move(PosAt(g, at - 1), db[at + 1])

\* The indices of the moves of the game at g
RECURSIVE MovesOf(_)
MovesOf(g) ==
    IF db[g + 2] = MOVE_NONE THEN {}
    ELSE {g + 1} \cup MovesOf(g + 1)

TotalMoves == SumTo([th \in Threads |-> counters[th].movesCnt], nThreads - 1)
TotalMatches == SumTo([th \in Threads |-> counters[th].matchCnt], nThreads - 1)

\* search() run by a single thread over the whole database
SingleWorker == [Idle EXCEPT !.pc = "seek", !.data = 0, !.end = Len(db)]

----------------------------------------------------------------------------
(* C1..C3: the partition of the database among the workers *)

\* C1: for a well-formed database and any N >= 1, once all workers have
\* finished every GameRecord has been replayed by exactly one worker.
C1_EveryGameReplayedOnce ==
    AllDone => \A g \in GameStarts : Cardinality(ReplaysOf(g)) = 1

\* C2: once all workers have finished, the sum over the workers of movesCnt
\* is the number of elements that are neither sentinels nor result markers.
C2_MovesSumIsAllMoves == AllDone => TotalMoves = Cardinality(PlayedMoves)

\* C3: the aggregated matchCnt and movesCnt of N workers, N not above the
\* number of games, are those of a single worker.
C3_TotalsIndependentOfN ==
    (AllDone /\ nThreads <= Cardinality(GameStarts)) =>
        \A w \in RunSet(SingleWorker) :
            w.pc = "done" => TotalMoves = w.cnt /\ TotalMatches = w.matchCnt

----------------------------------------------------------------------------
(* C4..C7: what a game contributes to matchCnt *)

\* The dispatches of the pattern-match opcode by thread th
PatternEvents(th) ==
    {k \in EventsOf(th, "rule") : thr[th].trace[k].rule = RulePattern}

\* The position an event of thread th was about
PosOfEvent(th, k) == PosAt(thr[th].trace[k].game, thr[th].trace[k].at)

MasksEqual(pos) ==
    /\ pieces(pos) = data.pattern.all
    /\ pieces_c(pos, WHITE) = data.pattern.white
    /\ \A k \in 1..Len(data.pattern.pieces) :
          pieces_pt(pos, data.pattern.pieces[k][1]) = data.pattern.pieces[k][2]

MasksContained(pos) ==
    /\ data.pattern.all \subseteq pieces(pos)
    /\ data.pattern.white \subseteq pieces_c(pos, WHITE)
    /\ \A k \in 1..Len(data.pattern.pieces) :
          data.pattern.pieces[k][2] \subseteq pieces_pt(pos, data.pattern.pieces[k][1])

\* C4 as claimed: the pattern-match opcode passes on a position only when
\* the position's masks are exactly the pattern's masks.
C4_PatternPassesOnlyOnEqualMasks ==
    \A th \in Threads : \A k \in PatternEvents(th) :
        thr[th].trace[k].pass => MasksEqual(PosOfEvent(th, k))

\* C4 as amended: the pattern-match opcode passes on a position exactly when
\* each mask of the pattern (overall, white, each listed piece type) is
\* contained in the position's mask; extra pieces do not prevent the match.
C4_PatternPassesIffMasksContained ==
    \A th \in Threads : \A k \in PatternEvents(th) :
        thr[th].trace[k].pass <=> MasksContained(PosOfEvent(th, k))

\* A position that holds more pieces than the pattern passed the opcode.
C4_Witness ==
    \E th \in Threads : \E k \in PatternEvents(th) :
        /\ thr[th].trace[k].pass
        /\ pieces(PosOfEvent(th, k)) # data.pattern.all
        /\ data.pattern.all \subseteq pieces(PosOfEvent(th, k))

\* C5: a game replayed by a worker adds at most 1 to the worker's matchCnt.
C5_AtMostOneMatchPerGame ==
    \A th \in Threads :
        /\ \A g \in GameStarts : Cardinality(MatchesOf(th, g)) <= 1
        /\ thr[th].matchCnt = Cardinality(EventsOf(th, "match"))
        /\ thr[th].matchCnt <= Cardinality(EventsOf(th, "game"))

\* A finished worker credited a game at one move, and a later move of the
\* same game reaches a position that satisfies the whole program too.
C5_Witness ==
    \E th \in Threads : \E k \in EventsOf(th, "match") :
        /\ thr[th].pc = "done"
        /\ \E b \in MovesOf(thr[th].trace[k].game) :
              /\ b > thr[th].trace[k].at
              /\ RunRules(1, PosAt(thr[th].trace[k].game, b),
                          to_sq(db[thr[th].trace[k].game + 1])).out = "Match"

HasResultRule == \E k \in 1..Len(data.rules) : data.rules[k] = RuleResult

\* The opcodes other than result-match pass on pos
OtherRulesPass(pos) ==
    \A k \in 1..Len(data.rules) :
        data.rules[k] \in {RulePattern, RuleMaterial, RuleWhite, RuleBlack}
            => MovePasses(data.rules[k], pos)

\* C6: with a result-match opcode in the program, a replayed game whose
\* result differs from the target adds nothing to matchCnt: every match
\* counted is that of a game with the target result.
C6_ResultMismatchNeverMatches ==
    HasResultRule =>
        \A th \in Threads :
            thr[th].matchCnt =
                Cardinality({k \in EventsOf(th, "match") :
                    to_sq(db[thr[th].trace[k].game + 1]) = data.result})

\* A finished worker replayed a game of another result than the target that
\* reaches a position on which every other opcode passes.
C6_Witness ==
    /\ HasResultRule
    /\ \E th \in Threads : \E k \in EventsOf(th, "game") :
          /\ thr[th].pc = "done"
          /\ to_sq(db[thr[th].trace[k].at + 1]) # data.result
          /\ \E b \in MovesOf(thr[th].trace[k].at) :
                OtherRulesPass(PosAt(thr[th].trace[k].at, b))

EmptyQuery ==
    /\ json_empty(j.fen)
    /\ json_empty(j.material)
    /\ json_empty(j.stm)
    /\ json_empty(j.result)

\* C7: a query with none of the four fields compiles to the single opcode
\* none, and no worker counts a match, so the matches reported are 0.
C7_EmptyQueryMatchesNothing ==
    EmptyQuery =>
        /\ pcMain # "parse" => data.rules = <<RuleNone>>
        /\ \A th \in Threads : thr[th].matchCnt = 0 /\ counters[th].matchCnt = 0
        /\ pcMain = "done" => report.matches = 0

\* The scan of an empty query has been reported and a game with moves was
\* replayed in it.
C7_Witness ==
    /\ EmptyQuery
    /\ pcMain = "done"
    /\ \E th \in Threads : EventsOf(th, "move") # {}

----------------------------------------------------------------------------
(* C8, C9: the compiled program *)

Present(v) == ~json_empty(v)
Recognized(v) == v \in {"1-0", "0-1", "1/2-1/2", "*"}

\* How many times opcode r occurs in the compiled program
Count(r) == Cardinality({k \in 1..Len(data.rules) : data.rules[k] = r})

\* The place of an opcode in the fixed order of compilation
Rank(r) ==
    CASE r = RulePattern -> 1
      [] r = RuleMaterial -> 2
      [] r \in {RuleWhite, RuleBlack} -> 3
      [] r = RuleResult -> 4
      [] r \in {RuleEnd, RuleNone} -> 5

\* C8: from an empty rule list, the program holds, each at most once and in
\* this order, pattern-match (iff fen is present), material-match (iff
\* material is present), one side-to-move opcode (iff stm is present),
\* result-match (iff result is present and recognized), then exactly one
\* terminator: end when an opcode was emitted, none otherwise.
C8_ProgramShape ==
    pcMain = "scan" =>
        /\ Count(RulePattern) = IF Present(j.fen) THEN 1 ELSE 0
        /\ Count(RuleMaterial) = IF Present(j.material) THEN 1 ELSE 0
        /\ Count(RuleWhite) + Count(RuleBlack) = IF Present(j.stm) THEN 1 ELSE 0
        /\ Count(RuleResult) =
              IF Present(j.result) /\ Recognized(j.result) THEN 1 ELSE 0
        /\ Count(RuleEnd) + Count(RuleNone) = 1
        /\ \A a \in 1..Len(data.rules) : \A b \in 1..Len(data.rules) :
              a < b => Rank(data.rules[a]) < Rank(data.rules[b])
        /\ data.rules[Len(data.rules)] =
              IF Len(data.rules) > 1 THEN RuleEnd ELSE RuleNone

\* A query with the four fields, its result recognized, has been compiled.
C8_Witness ==
    /\ pcMain = "scan"
    /\ Present(j.fen) /\ Present(j.material) /\ Present(j.stm)
    /\ Present(j.result) /\ Recognized(j.result)
    /\ Len(data.rules) = 5

\* C9: compiling a query whose result is present and not recognized leaves
\* the target result as it was, emits no result-match opcode and yields the
\* program of the same query without the result field ([none] when no other
\* field is present).
C9_UnrecognizedResultIsIgnored ==
    [][(pcMain = "parse" /\ Present(j.result) /\ ~Recognized(j.result)) =>
          /\ pcMain' = "scan"
          /\ data'.result = data.result
          /\ \A k \in 1..Len(data'.rules) : data'.rules[k] # RuleResult
          /\ data'.rules = parse_rules(data, [j EXCEPT !.result = JsonNull]).rules
          /\ (json_empty(j.fen) /\ json_empty(j.material) /\ json_empty(j.stm))
                => data'.rules = <<RuleNone>>]_vars

\* A query holding only an unrecognized result has been compiled, and the
\* target result is still the white win it was before.
C9_Witness ==
    /\ pcMain = "scan"
    /\ j = Query(JsonNull, JsonNull, JsonNull, "draw")
    /\ data.result = WhiteWin
    /\ data.rules = <<RuleNone>>

----------------------------------------------------------------------------
(* C10: the counters *)

\* C10: the counters of a thread are written by that thread only, once, when
\* it completes, with the counts of its own scan; these counts and the totals
\* reported are those of the threads run one at a time, whatever the
\* interleaving of the steps was.
C10_CountersOwnedAndDeterministic ==
    /\ \A th \in Threads :
          /\ \A k \in 1..Len(writers[th]) : writers[th][k] = th
          /\ Len(writers[th]) = IF thr[th].pc = "done" THEN 1 ELSE 0
          /\ thr[th].pc = "done" =>
                \A w \in RunSet(Enter(th)) :
                    w.pc = "done" =>
                        counters[th] = [movesCnt |-> w.cnt, matchCnt |-> w.matchCnt]
    /\ pcMain = "done" => report = [cnt |-> TotalMoves, matches |-> TotalMatches]

\* Two workers that both replayed a game have committed, moves were counted
\* and the totals are reported.
C10_Witness ==
    /\ pcMain = "done"
    /\ report.cnt > 0
    /\ \E a \in Threads : \E b \in Threads :
          /\ a # b
          /\ EventsOf(a, "game") # {} /\ EventsOf(b, "game") # {}
          /\ Len(writers[a]) = 1 /\ Len(writers[b]) = 1

----------------------------------------------------------------------------
(* C11, C12: games and slices *)

\* The result markers of the games thread th started
GamesOf(th) == {thr[th].trace[k].at : k \in EventsOf(th, "game")}

\* The index of the sentinel of the game at g
SentinelOf(g) == g + Cardinality(MovesOf(g)) + 1

\* The indices thread th dereferenced while replaying the game at g
ReadsIn(th, g) ==
    {thr[th].trace[k].at : k \in {r \in EventsOf(th, "read") :
                                     thr[th].trace[r].game = g /\ thr[th].trace[r].at > g}}

\* C11: no GameRecord is replayed by two workers (nor twice by one); a worker
\* replays only games whose result marker lies after its nominal start and
\* before its nominal end, so the game that holds its nominal start, which
\* an earlier worker may be replaying past its own end, is never replayed by it.
C11_NoGameReplayedTwice ==
    /\ \A g \in 0..Len(db) : Cardinality(ReplaysOf(g)) <= 1
    /\ \A th \in Threads : \A g \in GamesOf(th) :
          /\ g \in GameStarts
          /\ SliceStart(th) < g
          /\ g < SliceEnd(th)

\* Worker a replayed a game past its nominal end, and a later worker b, whose
\* nominal start lies inside that game, finished without replaying it.
C11_Witness ==
    \E a \in Threads : \E b \in Threads : \E g \in GamesOf(a) :
        /\ a < b
        /\ thr[a].pc = "done" /\ thr[b].pc = "done"
        /\ SentinelOf(g) >= SliceEnd(a)
        /\ SentinelOf(g) \in ReadsIn(a, g)
        /\ g < SliceStart(b) /\ SliceStart(b) <= SentinelOf(g)
        /\ g \notin GamesOf(b)


\* A worker is in a game from the start of the game to the read of its sentinel
InGame(w) == w.pc \in {"inner", "skip"}

\* C12: a worker that is in a game stays in it, moving on by at most one
\* element per step whatever its nominal end is, until it has read the
\* sentinel of that game; the test data < end is made only at a game
\* boundary (a result marker or the end of the database).
C12_GameConsumedToItsSentinel ==
    [][\A th \in Threads :
          /\ thr[th].pc = "outer" => thr[th].data \in GameStarts \cup {Len(db)}
          /\ InGame(thr[th]) =>
                \/ thr'[th] = thr[th]
                \/ /\ InGame(thr'[th])
                   /\ thr'[th].game = thr[th].game
                   /\ thr'[th].data \in {thr[th].data, thr[th].data + 1}
                   /\ thr'[th].data < SentinelOf(thr[th].game)
                \/ /\ thr'[th].pc = "advance"
                   /\ thr[th].pc = "inner"
                   /\ thr[th].data + 1 = SentinelOf(thr[th].game)
                   /\ thr'[th].data = SentinelOf(thr[th].game)]_vars

\* A finished worker applied a move that lies at or beyond its nominal end.
C12_Witness ==
    \E th \in Threads : \E k \in EventsOf(th, "move") :
        /\ thr[th].pc = "done"
        /\ thr[th].trace[k].at >= SliceEnd(th)
        /\ thr[th].trace[k].game < SliceEnd(th)


----------------------------------------------------------------------------
(* C13, C14: the match of a game *)

HasRule(r) == \E k \in 1..Len(data.rules) : data.rules[k] = r

\* The program is made of material-match, side-to-move and result-match opcodes
MaterialStmResultProgram ==
    /\ Len(data.rules) >= 2
    /\ data.rules[Len(data.rules)] = RuleEnd
    /\ \A k \in 1..(Len(data.rules) - 1) :
          data.rules[k] \in {RuleMaterial, RuleWhite, RuleBlack, RuleResult}

\* pos satisfies every opcode of the program other than result-match
Satisfies(pos) ==
    /\ HasRule(RuleMaterial) => material_key(pos) = data.matKey
    /\ HasRule(RuleWhite) => side_to_move(pos) = WHITE
    /\ HasRule(RuleBlack) => side_to_move(pos) = BLACK

\* The moves of the game at g after which the position satisfies the program
Qualifying(g) == {b \in MovesOf(g) : Satisfies(PosAt(g, b))}

\* The result of the game at g passes the result-match opcode, if there is one
ResultOK(g) == HasRule(RuleResult) => to_sq(db[g + 1]) = data.result

Earliest(S) == CHOOSE x \in S : \A y \in S : x <= y

\* C13: with a program of material-match, side-to-move and result-match
\* opcodes, a finished worker credited a game it replayed with exactly one
\* match if the result of the game passes the result opcode and some position
\* after a move satisfies the other opcodes, at the earliest such move, and
\* with no match otherwise; matchCnt is the number of these matches.
C13_OneMatchAtEarliestQualifyingMove ==
    MaterialStmResultProgram =>
        \A th \in Threads :
            thr[th].pc = "done" =>
                /\ thr[th].matchCnt = Cardinality(EventsOf(th, "match"))
                /\ \A k \in EventsOf(th, "match") : thr[th].trace[k].game \in GamesOf(th)
                /\ \A g \in GamesOf(th) :
                      IF ResultOK(g) /\ Qualifying(g) # {}
                      THEN /\ Cardinality(MatchesOf(th, g)) = 1
                           /\ \A k \in MatchesOf(th, g) :
                                 thr[th].trace[k].at = Earliest(Qualifying(g))
                      ELSE MatchesOf(th, g) = {}

\* A finished worker credited a game at a move that follows a move of the
\* same game at which a material-match or side-to-move opcode failed.
C13_Witness ==
    /\ MaterialStmResultProgram
    /\ \E th \in Threads : \E k \in EventsOf(th, "match") :
          /\ thr[th].pc = "done"
          /\ \E f \in EventsOf(th, "rule") :
                /\ thr[th].trace[f].game = thr[th].trace[k].game
                /\ thr[th].trace[f].at < thr[th].trace[k].at
                /\ thr[th].trace[f].rule \in {RuleMaterial, RuleWhite, RuleBlack}
                /\ ~thr[th].trace[f].pass


\* The events of th that close a game: a credited match or a result mismatch
Closings(th) ==
    {k \in 1..Len(thr[th].trace) :
        \/ thr[th].trace[k].op = "match"
        \/ /\ thr[th].trace[k].op = "rule"
           /\ thr[th].trace[k].rule = RuleResult
           /\ ~thr[th].trace[k].pass}

\* The events of th after its event k, up to the start of the next game
AfterUntilGame(th, k) ==
    {n \in (k + 1)..Len(thr[th].trace) :
        \A m \in (k + 1)..(n - 1) : thr[th].trace[m].op # "game"}

\* C14: after a result mismatch or a credited match in a game, all a worker
\* does before it starts another game or stops is to read elements up to the
\* one after the sentinel of the game: it applies no move and evaluates no
\* opcode; the game it starts next is the one right after that sentinel.
C14_NothingAfterMatchOrMismatch ==
    \A th \in Threads : \A k \in Closings(th) :
        \A n \in AfterUntilGame(th, k) :
            LET e == thr[th].trace[n]
                s == SentinelOf(thr[th].trace[k].game)
            IN  \/ e.op = "read" /\ e.at > thr[th].trace[k].at /\ e.at <= s + 1
                \/ e.op = "game" /\ e.at = s + 1

\* A finished worker credited a match or met a result mismatch at a move that
\* is not the last of its game, and read the later move.
C14_Witness ==
    \E th \in Threads : \E k \in Closings(th) :
        /\ thr[th].pc = "done"
        /\ thr[th].trace[k].at + 1 \in MovesOf(thr[th].trace[k].game)
        /\ \E n \in AfterUntilGame(th, k) :
              /\ thr[th].trace[n].op = "read"
              /\ thr[th].trace[n].at = thr[th].trace[k].at + 1


----------------------------------------------------------------------------
(* C15, C16: the end of the database *)

\* C15: for a well-formed database and any N >= 1, every worker that has
\* run search() has come to its end and committed its counters.
C15_EveryWorkerCommits ==
    \A th \in Threads :
        thr[th].pc # "idle" =>
            /\ thr[th].pc = "done"
            /\ counters[th] = [movesCnt |-> thr[th].cnt,
                               matchCnt |-> thr[th].matchCnt]

\* C16: for a well-formed database, every index of the move array a worker
\* dereferences lies in [0, dbSize).
C16_ReadsWithinDatabase ==
    \A th \in Threads : \A k \in EventsOf(th, "read") :
        /\ 0 <= thr[th].trace[k].at
        /\ thr[th].trace[k].at < Len(db)


----------------------------------------------------------------------------
(* C17, C18: the moves counted *)

\* The indices of the moves of the games thread th replayed
MovesReplayedBy(th) == UNION {MovesOf(g) : g \in GamesOf(th)}

\* C17: whatever the query is, a worker that has finished counted exactly
\* the moves of the games it replayed, each game once: those it applied and
\* those it skipped after a credited match or a result mismatch.
C17_MovesCntIsMovesOfGamesReplayed ==
    \A th \in Threads :
        Ended(thr[th]) =>
            /\ thr[th].cnt = Cardinality(MovesReplayedBy(th))
            /\ Cardinality(EventsOf(th, "game")) = Cardinality(GamesOf(th))
            /\ {thr[th].trace[k].at : k \in EventsOf(th, "move")}
                  \subseteq MovesReplayedBy(th)

\* A finished worker counted a move it did not apply.
C17_Witness ==
    \E th \in Threads :
        /\ thr[th].pc = "done"
        /\ counters[th].movesCnt = thr[th].cnt
        /\ thr[th].cnt > Cardinality(EventsOf(th, "move"))
        /\ Closings(th) # {}


\* The query is a result-only query
ResultOnlyProgram == data.rules = <<RuleResult, RuleEnd>>

\* The events op of thread th in its replay of the game at g
EventsIn(th, g, op) == {k \in EventsOf(th, op) : thr[th].trace[k].game = g}

\* C18: a game with no move adds no match and no move to the counters of the
\* worker that replayed it, whatever the query is; with a result-only query
\* a game is credited if and only if its result is the target and it has at
\* least one move, and the match is credited at its first move.
C18_EmptyGameContributesNothing ==
    \A th \in Threads :
        Ended(thr[th]) =>
            /\ \A g \in GamesOf(th) :
                  MovesOf(g) = {} =>
                      /\ MatchesOf(th, g) = {}
                      /\ EventsIn(th, g, "move") = {}
                      /\ EventsIn(th, g, "rule") = {}
            /\ (\A g \in GamesOf(th) : MovesOf(g) = {}) =>
                  thr[th].cnt = 0 /\ thr[th].matchCnt = 0
            /\ ResultOnlyProgram =>
                  /\ thr[th].matchCnt = Cardinality(EventsOf(th, "match"))
                  /\ \A g \in GamesOf(th) :
                        IF to_sq(db[g + 1]) = data.result /\ MovesOf(g) # {}
                        THEN /\ Cardinality(MatchesOf(th, g)) = 1
                             /\ \A k \in MatchesOf(th, g) : thr[th].trace[k].at = g + 1
                        ELSE MatchesOf(th, g) = {}

\* With a result-only query, a finished worker replayed a game of the target
\* result that has no move and one that has moves, and counted one match.
C18_Witness ==
    /\ ResultOnlyProgram
    /\ \E th \in Threads : \E e, g \in GamesOf(th) :
          /\ thr[th].pc = "done"
          /\ MovesOf(e) = {} /\ to_sq(db[e + 1]) = data.result
          /\ MovesOf(g) # {} /\ to_sq(db[g + 1]) = data.result
          /\ counters[th].matchCnt = 1


----------------------------------------------------------------------------
(* C19: the side to move of a query *)

\* C19: when the stm field is present, the compiled program holds exactly
\* one side-to-move opcode: the white one if the value is exactly "WHITE",
\* the black one for every other value, unrecognized values included.
C19_StmAlwaysCompiles ==
    pcMain = "scan" =>
        IF Present(j.stm)
        THEN /\ Count(RuleWhite) + Count(RuleBlack) = 1
             /\ Count(RuleWhite) = 1 <=> j.stm = "WHITE"
             /\ data.rules[Len(data.rules)] = RuleEnd
        ELSE Count(RuleWhite) + Count(RuleBlack) = 0

\* A query whose stm is neither "WHITE" nor "BLACK" was compiled to the
\* black-to-move opcode alone.
C19_Witness ==
    /\ pcMain = "scan"
    /\ Present(j.stm)
    /\ j.stm \notin {"WHITE", "BLACK"}
    /\ data.rules = <<RuleBlack, RuleEnd>>

====
